---- MODULE Spec2Model ----
(***************************************************************************)
(* Wire-format layer of smbprotocol (src/smbprotocol/messages.py).         *)
(*                                                                         *)
(* Every message is a Structure: an ordered list of fields that is packed  *)
(* to bytes or unpacked from bytes.  The catalog records and their helper  *)
(* functions are translated from messages.py.  The Field/Structure engine  *)
(* (smbprotocol/structure.py) is imported by messages.py; its pack and     *)
(* unpack rules are taken from sections 4.1, 4.2 and 7 of the              *)
(* specification.                                                          *)
(*                                                                         *)
(* A byte buffer is a sequence of numbers in 0..255.  A record instance    *)
(* is populated by a caller (or a buffer is received from a peer), then    *)
(* packed or unpacked once.                                                *)
(***************************************************************************)
EXTENDS Integers, Sequences, FiniteSets, TLC

VARIABLES pc, kind, msg, packed, decoded

vars == <<pc, kind, msg, packed, decoded>>

\* ------------------------------------------------------------------ bounds

\* longest opaque payload / file name / security buffer the model populates
MaxBuf == 3
\* longest dialect list the model populates
MaxDialects == 4
\* most negotiate or error context entries in one list
MaxContexts == 2
\* most create context entries in one chain
MaxChain == 3
\* longest security buffer / file name the model populates
MaxSecurityBuffer == 9
\* longest raw negotiate-context body the model populates
MaxBody == 17

\* ------------------------------------------------------------ byte buffers

Min(a, b) == IF a < b THEN a ELSE b

Max(a, b) == IF a < b THEN b ELSE a

Zeros(n) == [i \in 1..n |-> 0]

\* Python slices data[:n], data[n:], data[a:b]: never fail, clip to the buffer
Take(data, n) == SubSeq(data, 1, Min(n, Len(data)))

Drop(data, n) == SubSeq(data, Min(n, Len(data)) + 1, Len(data))

Slice(data, a, b) == Take(Drop(data, a), Max(b - a, 0))

\* little-endian and big-endian encodings of an integer in size bytes
RECURSIVE LE(_, _)
LE(v, size) ==
    IF size = 0 THEN <<>> ELSE <<v % 256>> \o LE(v \div 256, size - 1)

Reverse(s) == [i \in 1..Len(s) |-> s[Len(s) + 1 - i]]

BE(v, size) == Reverse(LE(v, size))

RECURSIVE FromLE(_)
FromLE(bytes) ==
    IF bytes = <<>> THEN 0 ELSE Head(bytes) + 256 * FromLE(Tail(bytes))

FromBE(bytes) == FromLE(Reverse(bytes))

RECURSIVE Concat(_)
Concat(seqs) ==
    IF seqs = <<>> THEN <<>> ELSE Head(seqs) \o Concat(Tail(seqs))

\* ------------------------------------------------ field values and results

\* a field the caller left unset, and a field the caller set explicitly
Unset == [set |-> FALSE, v |-> 0]

SetTo(n) == [set |-> TRUE, v |-> n]

\* the value a field packs: the explicit value, else its default
ValueOr(field, default) == IF field.set THEN field.v ELSE default

F(name, bytes) == [name |-> name, bytes |-> bytes]

Ok(fields) == [ok |-> TRUE, fields |-> fields, err |-> ""]

Fail(why) == [ok |-> FALSE, fields |-> <<>>, err |-> why]

None == [ok |-> FALSE, fields |-> <<>>, err |-> "none"]

\* the bytes of a packed record: its fields' bytes in declared order
Wire(fields) == Concat([i \in 1..Len(fields) |-> fields[i].bytes])

RECURSIVE IndexOf(_, _, _)
IndexOf(fields, name, i) ==
    IF i > Len(fields) THEN 0
    ELSE IF fields[i].name = name THEN i
    ELSE IndexOf(fields, name, i + 1)

\* the packed bytes of one named field
Get(fields, name) == fields[IndexOf(fields, name, 1)].bytes

\* the measured position of a named field from the start of the record
PositionOf(fields, name) ==
    Len(Wire(SubSeq(fields, 1, IndexOf(fields, name, 1) - 1)))

\* an IntField packs only a value that fits its size
RECURSIVE Shr(_, _)
Shr(v, size) == IF size = 0 THEN v ELSE Shr(v \div 256, size - 1)

IntFits(v, size) == v >= 0 /\ Shr(v, size) = 0

\* a BytesField with a declared size packs only a value of that length
BytesFit(bytes, size) == Len(bytes) = size

\* ------------------------------------------------------- DirectTCPPacket

DirectTCPPacket_pack(m) ==
    LET stream_protocol_length ==
            ValueOr(m.stream_protocol_length, Len(m.smb2_message))
        smb2_message_size == stream_protocol_length
    IN  IF ~IntFits(stream_protocol_length, 4)
        THEN Fail("stream_protocol_length")
        ELSE IF ~BytesFit(m.smb2_message, smb2_message_size)
        THEN Fail("smb2_message")
        ELSE Ok(<<F("stream_protocol_length", BE(stream_protocol_length, 4)),
                  F("smb2_message", m.smb2_message)>>)

\* ------------------------------------------------------ unpack results

\* the outcome of unpacking one field or record from the front of a buffer:
\* the decoded value and the remaining buffer, or a decode failure
Got(value, rest) == [ok |-> TRUE, value |-> value, rest |-> rest, err |-> ""]

Bad(why) == [ok |-> FALSE, value |-> <<>>, rest |-> <<>>, err |-> why]

\* a field consumes exactly its resolved size from the front of the buffer;
\* a size that reads past the end of the buffer is a structural error
CanRead(data, size) == size >= 0 /\ Len(data) >= size

\* ----------------------------------------------------- program constants

header_size == 64

SMB2_PREAUTH_INTEGRITY_CAPABILITIES == 1

SMB2_ENCRYPTION_CAPABILITIES == 2

SMB_3_1_1 == 785

\* a list of 2-byte codes (dialects, ciphers, hash algorithms)
PackCodes(codes) == Concat([i \in 1..Len(codes) |-> LE(codes[i], 2)])

UnpackCodes(data, count) ==
    [i \in 1..count |-> FromLE(Slice(data, 2 * (i - 1), 2 * i))]

\* ----------------------------------- SMB2PreauthIntegrityCapabilities

\* the count taken from the byte length of the packed list
SMB2PreauthIntegrityCapabilities_pack_byte_count(b) ==
    LE(Len(PackCodes(b.hash_algorithms)), 2) \o LE(Len(b.salt), 2)
        \o PackCodes(b.hash_algorithms) \o b.salt

SMB2PreauthIntegrityCapabilities_pack(b) ==
    LE(Len(b.hash_algorithms), 2) \o LE(Len(b.salt), 2)
        \o PackCodes(b.hash_algorithms) \o b.salt

SMB2PreauthIntegrityCapabilities_unpack(data) ==
    IF ~CanRead(data, 4) THEN Bad("hash_algorithm_count")
    ELSE LET hash_algorithm_count == FromLE(Slice(data, 0, 2))
             salt_length == FromLE(Slice(data, 2, 4))
             rest == Drop(data, 4)
         IN  IF ~CanRead(rest, hash_algorithm_count * 2)
             THEN Bad("hash_algorithms")
             ELSE IF ~CanRead(Drop(rest, hash_algorithm_count * 2), salt_length)
             THEN Bad("salt")
             ELSE Got([st |-> "SMB2PreauthIntegrityCapabilities",
                       hash_algorithms |->
                           UnpackCodes(rest, hash_algorithm_count),
                       salt |-> Slice(rest, hash_algorithm_count * 2,
                                      hash_algorithm_count * 2 + salt_length)],
                      Drop(rest, hash_algorithm_count * 2 + salt_length))

\* ----------------------------------------- SMB2EncryptionCapabilities

SMB2EncryptionCapabilities_pack(b) ==
    LE(Len(b.ciphers), 2) \o PackCodes(b.ciphers)

SMB2EncryptionCapabilities_unpack(data) ==
    IF ~CanRead(data, 2) THEN Bad("cipher_count")
    ELSE LET cipher_count == FromLE(Slice(data, 0, 2))
             rest == Drop(data, 2)
         IN  IF ~CanRead(rest, cipher_count * 2) THEN Bad("ciphers")
             ELSE Got([st |-> "SMB2EncryptionCapabilities",
                       ciphers |-> UnpackCodes(rest, cipher_count)],
                      Drop(rest, cipher_count * 2))

\* ----------------------------------------- SMB2NegotiateContextRequest

\* the value of the data field: a nested record, or raw bytes
RawData(bytes) == [st |-> "bytes", raw |-> bytes]

PackData(b) ==
    IF b.st = "SMB2PreauthIntegrityCapabilities"
    THEN SMB2PreauthIntegrityCapabilities_pack(b)
    ELSE IF b.st = "SMB2EncryptionCapabilities"
    THEN SMB2EncryptionCapabilities_pack(b)
    ELSE b.raw

\* the record type of the data field, chosen by the decoded context_type
NegotiateContext_data_structure_type(context_type) ==
    IF context_type = SMB2_PREAUTH_INTEGRITY_CAPABILITIES
    THEN "SMB2PreauthIntegrityCapabilities"
    ELSE IF context_type = SMB2_ENCRYPTION_CAPABILITIES
    THEN "SMB2EncryptionCapabilities"
    ELSE "None"

\* the padding taken to be the remainder, as SMB3NegotiateRequest does
NegotiateContext_padding_size_remainder(data_size) == data_size % 8

NegotiateContext_padding_size(data_size) ==
    IF data_size <= 8 THEN 8 - data_size ELSE 8 - (data_size % 8)

SMB2NegotiateContextRequest_pack(e) ==
    LET data == PackData(e.data)
        data_length == Len(data)
    IN  <<F("context_type", LE(e.context_type, 2)),
          F("data_length", LE(data_length, 2)),
          F("reserved", LE(0, 4)),
          F("data", data),
          F("padding", Zeros(NegotiateContext_padding_size(Len(data))))>>

\* a StructureField: the bytes are unpacked as the selected record type; with
\* no type selected the raw bytes are retained uninterpreted
UnpackData(structure_type, bytes) ==
    IF structure_type = "SMB2PreauthIntegrityCapabilities"
    THEN SMB2PreauthIntegrityCapabilities_unpack(bytes)
    ELSE IF structure_type = "SMB2EncryptionCapabilities"
    THEN SMB2EncryptionCapabilities_unpack(bytes)
    ELSE Got(RawData(bytes), <<>>)

SMB2NegotiateContextRequest_unpack(data) ==
    IF ~CanRead(data, 8) THEN Bad("context header")
    ELSE LET context_type == FromLE(Slice(data, 0, 2))
             data_length == FromLE(Slice(data, 2, 4))
             rest == Drop(data, 8)
         IN  IF ~CanRead(rest, data_length) THEN Bad("data")
             ELSE LET body == UnpackData(
                              NegotiateContext_data_structure_type(context_type),
                              Take(rest, data_length))
                      after == Drop(rest, data_length)
                  IN  IF ~body.ok THEN Bad(body.err)
                      ELSE LET padding_size ==
                                   NegotiateContext_padding_size(
                                       Len(PackData(body.value)))
                           IN  IF ~CanRead(after, padding_size)
                               THEN Bad("padding")
                               ELSE Got([context_type |-> context_type,
                                         data_length |-> data_length,
                                         data |-> body.value,
                                         padding |-> Take(after, padding_size)],
                                        Drop(after, padding_size))

\* a ListField of records packs its entries one after the other
PackContextList(list) ==
    Concat([i \in 1..Len(list) |-> Wire(SMB2NegotiateContextRequest_pack(list[i]))])

\* struct.unpack("<H", data[2:4])[0]: fails unless the slice holds 2 bytes
StructUnpackH(data) ==
    IF Len(Slice(data, 2, 4)) = 2
    THEN Got(FromLE(Slice(data, 2, 4)), <<>>)
    ELSE Bad("struct.error")

\* ------------------------------------------------ SMB3NegotiateRequest

\* the padding taken to be the distance to the next multiple of 8
SMB3NegotiateRequest_padding_size_to_boundary(dialect_count) ==
    LET mod == (dialect_count * 2) % 8
    IN  IF mod = 0 THEN 0 ELSE 8 - mod

SMB3NegotiateRequest_padding_size(dialect_count) ==
    LET mod == (dialect_count * 2) % 8
    IN  IF mod = 0 THEN 0 ELSE mod

SMB3NegotiateRequest_structure_size == 36

SMB3NegotiateRequest_negotiate_context_offset_value(dialect_count, dialects) ==
    LET negotiate_size == SMB3NegotiateRequest_structure_size
        dialect_size == Len(dialects)
        padding_size == SMB3NegotiateRequest_padding_size(dialect_count)
    IN  header_size + negotiate_size + dialect_size + padding_size

SMB3NegotiateRequest_pack(m) ==
    LET dialect_count == Len(m.dialects)
        dialects == PackCodes(m.dialects)
        negotiate_context_count == Len(m.negotiate_context_list)
        negotiate_context_offset ==
            SMB3NegotiateRequest_negotiate_context_offset_value(
                dialect_count, dialects)
    IN  IF ~BytesFit(dialects, dialect_count * 2) THEN Fail("dialects")
        ELSE Ok(<<F("structure_size",
                    LE(SMB3NegotiateRequest_structure_size, 2)),
                  F("dialect_count", LE(dialect_count, 2)),
                  F("security_mode", LE(0, 2)),
                  F("reserved", LE(0, 2)),
                  F("capabilities", LE(0, 4)),
                  F("client_guid", Zeros(16)),
                  F("negotiate_context_offset", LE(negotiate_context_offset, 4)),
                  F("negotiate_context_count", LE(negotiate_context_count, 2)),
                  F("reserved2", LE(0, 2)),
                  F("dialects", dialects),
                  F("padding",
                    Zeros(SMB3NegotiateRequest_padding_size(dialect_count))),
                  F("negotiate_context_list",
                    PackContextList(m.negotiate_context_list))>>)

\* one entry of the request's context list, and the buffer after it
SMB3NegotiateRequest_parse_negotiate_context_entry(data) ==
    LET data_length == StructUnpackH(data)
    IN  IF ~data_length.ok THEN Bad(data_length.err)
        ELSE LET negotiate_context ==
                     SMB2NegotiateContextRequest_unpack(
                         Take(data, data_length.value + 8))
             IN  IF ~negotiate_context.ok THEN Bad(negotiate_context.err)
                 ELSE Got(negotiate_context.value,
                          Drop(data, 8 + data_length.value))

\* the loop ending as soon as the buffer is used up
RECURSIVE SMB3NegotiateRequest_negotiate_context_list_while_data(_, _, _)
SMB3NegotiateRequest_negotiate_context_list_while_data(context_count, data, context_list) ==
    IF Len(context_list) >= context_count \/ data = <<>>
    THEN Got(context_list, data)
    ELSE LET entry == SMB3NegotiateRequest_parse_negotiate_context_entry(data)
         IN  IF ~entry.ok THEN Bad(entry.err)
             ELSE SMB3NegotiateRequest_negotiate_context_list_while_data(
                      context_count, entry.rest,
                      Append(context_list, entry.value))

RECURSIVE SMB3NegotiateRequest_negotiate_context_list(_, _, _)
SMB3NegotiateRequest_negotiate_context_list(context_count, data, context_list) ==
    IF Len(context_list) >= context_count THEN Got(context_list, data)
    ELSE LET entry == SMB3NegotiateRequest_parse_negotiate_context_entry(data)
         IN  IF ~entry.ok THEN Bad(entry.err)
             ELSE SMB3NegotiateRequest_negotiate_context_list(
                      context_count, entry.rest,
                      Append(context_list, entry.value))

\* the fields are consumed in declared order; the context list takes the rest
SMB3NegotiateRequest_unpack(data) ==
    IF ~CanRead(data, SMB3NegotiateRequest_structure_size) THEN Bad("fixed part")
    ELSE LET dialect_count == FromLE(Slice(data, 2, 4))
             negotiate_context_offset == FromLE(Slice(data, 28, 32))
             negotiate_context_count == FromLE(Slice(data, 32, 34))
             rest == Drop(data, SMB3NegotiateRequest_structure_size)
             padding_size == SMB3NegotiateRequest_padding_size(dialect_count)
         IN  IF ~CanRead(rest, dialect_count * 2) THEN Bad("dialects")
             ELSE IF ~CanRead(Drop(rest, dialect_count * 2), padding_size)
             THEN Bad("padding")
             ELSE LET list == SMB3NegotiateRequest_negotiate_context_list(
                                  negotiate_context_count,
                                  Drop(rest, dialect_count * 2 + padding_size),
                                  <<>>)
                  IN  IF ~list.ok THEN Bad(list.err)
                      ELSE Got([dialect_count |-> dialect_count,
                                negotiate_context_offset |->
                                    negotiate_context_offset,
                                negotiate_context_count |->
                                    negotiate_context_count,
                                dialects |-> UnpackCodes(rest, dialect_count),
                                negotiate_context_list |-> list.value],
                               <<>>)

\* ------------------------------------------------ SMB2NegotiateResponse

SMB2NegotiateResponse_security_buffer_offset == 128

\* a default of None packs as zero bytes: the field's value is 0
PyNone == 0

SMB2NegotiateResponse_negotiate_context_count_value(dialect_revision, list) ==
    IF dialect_revision = SMB_3_1_1 THEN Len(list) ELSE PyNone

SMB2NegotiateResponse_padding_size(negotiate_context_count, security_buffer_length) ==
    IF negotiate_context_count = 0 THEN 0
    ELSE LET mod == security_buffer_length % 8
         IN  IF mod = 0 THEN 0 ELSE 8 - mod

\* the offset computed whatever the dialect is
SMB2NegotiateResponse_negotiate_context_offset_value_ungated(dialect_revision, negotiate_context_count, security_buffer_length) ==
    SMB2NegotiateResponse_security_buffer_offset + security_buffer_length
        + SMB2NegotiateResponse_padding_size(negotiate_context_count,
                                             security_buffer_length)

SMB2NegotiateResponse_negotiate_context_offset_value(dialect_revision, negotiate_context_count, security_buffer_length) ==
    IF dialect_revision = SMB_3_1_1
    THEN LET buffer_offset == SMB2NegotiateResponse_security_buffer_offset
             buffer_size == security_buffer_length
             padding_size ==
                 SMB2NegotiateResponse_padding_size(negotiate_context_count,
                                                    security_buffer_length)
         IN  buffer_offset + buffer_size + padding_size
    ELSE PyNone

SMB2NegotiateResponse_pack(m) ==
    LET negotiate_context_count ==
            SMB2NegotiateResponse_negotiate_context_count_value(
                m.dialect_revision, m.negotiate_context_list)
        security_buffer_length == Len(m.buffer)
        negotiate_context_offset ==
            SMB2NegotiateResponse_negotiate_context_offset_value(
                m.dialect_revision, negotiate_context_count,
                security_buffer_length)
        padding_size ==
            SMB2NegotiateResponse_padding_size(negotiate_context_count,
                                               security_buffer_length)
    IN  IF ~BytesFit(m.buffer, security_buffer_length) THEN Fail("buffer")
        ELSE Ok(<<F("structure_size", LE(65, 2)),
                  F("security_mode", LE(0, 2)),
                  F("dialect_revision", LE(m.dialect_revision, 2)),
                  F("negotiate_context_count", LE(negotiate_context_count, 2)),
                  F("server_guid", Zeros(16)),
                  F("capabilities", LE(0, 4)),
                  F("max_transact_size", LE(0, 4)),
                  F("max_read_size", LE(0, 4)),
                  F("max_write_size", LE(0, 4)),
                  F("system_time", LE(0, 8)),
                  F("server_start_time", LE(0, 8)),
                  F("security_buffer_offset",
                    LE(SMB2NegotiateResponse_security_buffer_offset, 2)),
                  F("security_buffer_length", LE(security_buffer_length, 2)),
                  F("negotiate_context_offset", LE(negotiate_context_offset, 4)),
                  F("buffer", m.buffer),
                  F("padding", Zeros(padding_size)),
                  F("negotiate_context_list",
                    PackContextList(m.negotiate_context_list))>>)

\* the padding the response decoder skips after an entry's body
SMB2NegotiateResponse_padded_size(data_length) ==
    LET mod == data_length % 8
    IN  IF mod # 0 THEN 8 - mod ELSE mod

\* one entry of the response's context list, and the buffer after it
SMB2NegotiateResponse_parse_negotiate_context_entry(data) ==
    LET data_length == StructUnpackH(data)
    IN  IF ~data_length.ok THEN Bad(data_length.err)
        ELSE LET negotiate_context ==
                     SMB2NegotiateContextRequest_unpack(
                         Take(data, data_length.value + 8))
                 padded_size ==
                     SMB2NegotiateResponse_padded_size(data_length.value)
             IN  IF ~negotiate_context.ok THEN Bad(negotiate_context.err)
                 ELSE Got(negotiate_context.value,
                          Drop(data, 8 + data_length.value + padded_size))

RECURSIVE SMB2NegotiateResponse_negotiate_context_list(_, _, _)
SMB2NegotiateResponse_negotiate_context_list(context_count, data, context_list) ==
    IF Len(context_list) >= context_count THEN Got(context_list, data)
    ELSE LET entry == SMB2NegotiateResponse_parse_negotiate_context_entry(data)
         IN  IF ~entry.ok THEN Bad(entry.err)
             ELSE SMB2NegotiateResponse_negotiate_context_list(
                      context_count, entry.rest,
                      Append(context_list, entry.value))

\* -------------------------------------------- SMB2CreateContextRequest

SMB2CreateContextRequest_name_offset == 16

SMB2CreateContextRequest_padding_size(data_length) ==
    IF data_length = 0 THEN 0
    ELSE LET mod == data_length % 8
         IN  IF mod = 0 THEN 0 ELSE 8 - mod

SMB2CreateContextRequest_buffer_data_offset(data_length, padding) ==
    IF data_length = 0 THEN 0
    ELSE SMB2CreateContextRequest_name_offset + Len(padding)

SMB2CreateContextRequest_pack(e) ==
    LET name_length == Len(e.buffer_name)
        data_length == Len(e.buffer_data)
        padding == Zeros(SMB2CreateContextRequest_padding_size(data_length))
    IN  <<F("next", LE(e.next, 4)),
          F("name_offset", LE(SMB2CreateContextRequest_name_offset, 2)),
          F("name_length", LE(name_length, 2)),
          F("reserved", LE(0, 2)),
          F("data_offset",
            LE(SMB2CreateContextRequest_buffer_data_offset(data_length, padding),
               2)),
          F("data_length", LE(data_length, 4)),
          F("buffer_name", e.buffer_name),
          F("padding", padding),
          F("buffer_data", e.buffer_data)>>

SMB2CreateContextRequest_unpack(data) ==
    IF ~CanRead(data, 16) THEN Bad("context header")
    ELSE LET next == FromLE(Slice(data, 0, 4))
             name_offset == FromLE(Slice(data, 4, 6))
             name_length == FromLE(Slice(data, 6, 8))
             data_offset == FromLE(Slice(data, 10, 12))
             data_length == FromLE(Slice(data, 12, 16))
             padding_size == SMB2CreateContextRequest_padding_size(data_length)
             rest == Drop(data, 16)
         IN  IF ~CanRead(rest, name_length) THEN Bad("buffer_name")
             ELSE IF ~CanRead(Drop(rest, name_length), padding_size)
             THEN Bad("padding")
             ELSE IF ~CanRead(Drop(rest, name_length + padding_size), data_length)
             THEN Bad("buffer_data")
             ELSE Got([next |-> next,
                       name_offset |-> name_offset,
                       name_length |-> name_length,
                       data_offset |-> data_offset,
                       data_length |-> data_length,
                       buffer_name |-> Take(rest, name_length),
                       padding |-> Slice(rest, name_length,
                                         name_length + padding_size),
                       buffer_data |->
                           Slice(rest, name_length + padding_size,
                                 name_length + padding_size + data_length)],
                      Drop(rest, name_length + padding_size + data_length))

\* len(create_context): the packed length of a decoded entry
SMB2CreateContextRequest_len(c) ==
    16 + Len(c.buffer_name) + Len(c.padding) + Len(c.buffer_data)

\* ---------------------------------------------------- SMB2CreateRequest

\* Python values: name_offset.get_value() is an int, padding.get_value() is
\* bytes, and + is defined on two ints or two bytes objects only
PyInt(n) == [t |-> "int", v |-> n]

PyBytes(b) == [t |-> "bytes", v |-> b]

PyAdd(a, b) ==
    IF a.t = "int" /\ b.t = "int" THEN PyInt(a.v + b.v)
    ELSE IF a.t = "bytes" /\ b.t = "bytes" THEN PyBytes(a.v \o b.v)
    ELSE [t |-> "TypeError", v |-> 0]

SMB2CreateRequest_name_offset == 120

PackCreateContexts(list) ==
    Concat([i \in 1..Len(list) |-> Wire(SMB2CreateContextRequest_pack(list[i]))])

\* the padding computed whether or not there are contexts
SMB2CreateRequest_padding_size_unconditional(buffer_context, name_length) ==
    LET mod == name_length % 8
    IN  IF mod = 0 THEN 0 ELSE 8 - mod

SMB2CreateRequest_padding_size(buffer_context, name_length) ==
    IF Len(buffer_context) = 0 THEN 0
    ELSE LET mod == name_length % 8
         IN  IF mod = 0 THEN 0 ELSE 8 - mod

SMB2CreateRequest_create_contexts_offset(buffer_context, padding) ==
    IF Len(buffer_context) = 0 THEN PyInt(0)
    ELSE PyAdd(PyInt(SMB2CreateRequest_name_offset), PyBytes(padding))

SMB2CreateRequest_pack(m) ==
    LET name_length == Len(m.buffer_path)
        buffer_context == PackCreateContexts(m.buffer_context)
        padding ==
            Zeros(SMB2CreateRequest_padding_size(buffer_context, name_length))
        create_contexts_offset ==
            SMB2CreateRequest_create_contexts_offset(buffer_context, padding)
        create_contexts_length == Len(buffer_context)
    IN  IF create_contexts_offset.t # "int" THEN Fail(create_contexts_offset.t)
        ELSE Ok(<<F("structure_size", LE(57, 2)),
                  F("security_flags", LE(0, 1)),
                  F("requested_oplock_level", LE(0, 1)),
                  F("impersonation_level", LE(0, 4)),
                  F("smb_create_flags", LE(0, 8)),
                  F("reserved", LE(0, 8)),
                  F("desired_access", LE(0, 4)),
                  F("file_attributes", LE(0, 4)),
                  F("share_access", LE(0, 4)),
                  F("create_disposition", LE(0, 4)),
                  F("create_options", LE(0, 4)),
                  F("name_offset", LE(SMB2CreateRequest_name_offset, 2)),
                  F("name_length", LE(name_length, 2)),
                  F("create_contexts_offset", LE(create_contexts_offset.v, 4)),
                  F("create_contexts_length", LE(create_contexts_length, 4)),
                  F("buffer_path", m.buffer_path),
                  F("padding", padding),
                  F("buffer_context", buffer_context)>>)

SMB2CreateRequest_parse_create_context_entry(data) ==
    LET create_context == SMB2CreateContextRequest_unpack(data)
    IN  IF ~create_context.ok THEN Bad(create_context.err)
        ELSE Got(create_context.value,
                 Drop(data, SMB2CreateContextRequest_len(create_context.value)))

\* the loop ends at the first entry whose next is 0; context_list is returned
\* as it was created
RECURSIVE SMB2CreateRequest_buffer_context_list(_, _)
SMB2CreateRequest_buffer_context_list(data, context_list) ==
    LET field == SMB2CreateRequest_parse_create_context_entry(data)
    IN  IF ~field.ok THEN Bad(field.err)
        ELSE IF field.value.next = 0 THEN Got(context_list, field.rest)
        ELSE SMB2CreateRequest_buffer_context_list(field.rest, context_list)

\* ---------------------------------------------------- SMB2ErrorResponse

\* the raw bytes returned as the only entry of the list
SMB2ErrorResponse_error_data_value_raw(error_context_count, data) == <<data>>

SMB2ErrorResponse_error_data_value(error_context_count, data) == <<>>

SMB2ErrorResponse_unpack(data) ==
    IF ~CanRead(data, 8) THEN Bad("fixed part")
    ELSE LET error_context_count == FromLE(Slice(data, 2, 3))
             reserved == FromLE(Slice(data, 3, 4))
             byte_count == FromLE(Slice(data, 4, 8))
             rest == Drop(data, 8)
         IN  IF ~CanRead(rest, byte_count) THEN Bad("error_data")
             ELSE Got([structure_size |-> FromLE(Slice(data, 0, 2)),
                       error_context_count |-> error_context_count,
                       reserved |-> reserved,
                       byte_count |-> byte_count,
                       error_data |->
                           SMB2ErrorResponse_error_data_value(
                               error_context_count, Take(rest, byte_count))],
                      Drop(rest, byte_count))

\* an SMB2ErrorContextResponse entry as it is laid out on the wire
SMB2ErrorContextResponse_pack(e) ==
    <<F("error_data_length", LE(Len(e.error_context_data), 4)),
      F("error_id", LE(e.error_id, 4)),
      F("error_context_data", e.error_context_data)>>

\* the response's fields are consumed in declared order
SMB2NegotiateResponse_unpack(data) ==
    IF ~CanRead(data, 64) THEN Bad("fixed part")
    ELSE LET dialect_revision == FromLE(Slice(data, 4, 6))
             negotiate_context_count == FromLE(Slice(data, 6, 8))
             security_buffer_length == FromLE(Slice(data, 58, 60))
             negotiate_context_offset == FromLE(Slice(data, 60, 64))
             rest == Drop(data, 64)
             padding_size ==
                 SMB2NegotiateResponse_padding_size(negotiate_context_count,
                                                    security_buffer_length)
         IN  IF ~CanRead(rest, security_buffer_length) THEN Bad("buffer")
             ELSE IF ~CanRead(Drop(rest, security_buffer_length), padding_size)
             THEN Bad("padding")
             ELSE LET list == SMB2NegotiateResponse_negotiate_context_list(
                                  negotiate_context_count,
                                  Drop(rest, security_buffer_length + padding_size),
                                  <<>>)
                  IN  IF ~list.ok THEN Bad(list.err)
                      ELSE Got([dialect_revision |-> dialect_revision,
                                negotiate_context_count |->
                                    negotiate_context_count,
                                negotiate_context_offset |->
                                    negotiate_context_offset,
                                buffer |-> Take(rest, security_buffer_length),
                                negotiate_context_list |-> list.value],
                               <<>>)

\* ------------------------------------------------- SMB1NegotiateRequest

SMB1NegotiateRequest_pack(m) ==
    LET byte_count == Len(m.dialects)
    IN  IF ~BytesFit(m.dialects, byte_count) THEN Fail("dialects")
        ELSE Ok(<<F("word_count", LE(0, 1)),
                  F("byte_count", LE(byte_count, 2)),
                  F("dialects", m.dialects)>>)

\* ------------------------------------------------- SMB2NegotiateRequest

SMB2NegotiateRequest_pack(m) ==
    LET dialect_count == Len(m.dialects)
        dialects == PackCodes(m.dialects)
    IN  IF ~BytesFit(dialects, dialect_count * 2) THEN Fail("dialects")
        ELSE Ok(<<F("structure_size", LE(36, 2)),
                  F("dialect_count", LE(dialect_count, 2)),
                  F("security_mode", LE(0, 2)),
                  F("reserved", LE(0, 2)),
                  F("capabilities", LE(0, 4)),
                  F("client_guid", Zeros(16)),
                  F("client_start_time", LE(0, 8)),
                  F("dialects", dialects)>>)

\* ----------------------------------------------------- SMB2PacketHeader

SMB2PacketHeader_pack(m) ==
    Ok(<<F("protocol_id", <<254, 83, 77, 66>>),
         F("structure_size", LE(64, 2)),
         F("credit_charge", LE(0, 2)),
         F("status", LE(0, 4)),
         F("command", LE(0, 2)),
         F("credit", LE(0, 2)),
         F("flags", LE(0, 4)),
         F("next_command", LE(0, 4)),
         F("message_id", LE(0, 8)),
         F("reserved", LE(0, 4)),
         F("tree_id", LE(0, 4)),
         F("session_id", LE(0, 8)),
         F("signature", Zeros(16)),
         F("data", m.data)>>)

\* --------------------------------------------- SMB2SessionSetupResponse

SMB2SessionSetupResponse_security_buffer_offset == 72

\* the record packed without its session_flags field
SMB2SessionSetupResponse_pack_without_flags(m) ==
    Ok(<<F("structure_size", LE(9, 2)),
         F("security_buffer_offset",
           LE(SMB2SessionSetupResponse_security_buffer_offset, 2)),
         F("security_buffer_length", LE(Len(m.buffer), 2)),
         F("buffer", m.buffer)>>)

SMB2SessionSetupResponse_pack(m) ==
    LET security_buffer_length == Len(m.buffer)
    IN  IF ~BytesFit(m.buffer, security_buffer_length) THEN Fail("buffer")
        ELSE Ok(<<F("structure_size", LE(9, 2)),
                  F("session_flags", LE(0, 2)),
                  F("security_buffer_offset",
                    LE(SMB2SessionSetupResponse_security_buffer_offset, 2)),
                  F("security_buffer_length", LE(security_buffer_length, 2)),
                  F("buffer", m.buffer)>>)

\* ---------------------------------------------- SMB2SessionSetupRequest

SMB2SessionSetupRequest_security_buffer_offset == 88

SMB2SessionSetupRequest_pack(m) ==
    LET security_buffer_length == Len(m.buffer)
    IN  IF ~BytesFit(m.buffer, security_buffer_length) THEN Fail("buffer")
        ELSE Ok(<<F("structure_size", LE(25, 2)),
                  F("flags", LE(0, 1)),
                  F("security_mode", LE(0, 1)),
                  F("capabilities", LE(0, 4)),
                  F("channel", LE(0, 4)),
                  F("security_buffer_offset",
                    LE(SMB2SessionSetupRequest_security_buffer_offset, 2)),
                  F("security_buffer_length", LE(security_buffer_length, 2)),
                  F("previous_session_id", LE(0, 8)),
                  F("buffer", m.buffer)>>)

\* ----------------------------------------------- SMB2TreeConnectRequest

SMB2TreeConnectRequest_path_offset == 64 + 8

SMB2TreeConnectRequest_pack(m) ==
    LET path_length == Len(m.buffer)
    IN  Ok(<<F("structure_size", LE(9, 2)),
             F("flags", LE(0, 2)),
             F("path_offset", LE(SMB2TreeConnectRequest_path_offset, 2)),
             F("path_length", LE(path_length, 2)),
             F("buffer", m.buffer)>>)

\* ----------------------------------------------------- SMB2IOCTLRequest

SMB2IOCTLRequest_buffer_offset_value(buffer) ==
    IF Len(buffer) > 0
    THEN LET request_size == 57
         IN  header_size + request_size - 1
    ELSE 0

SMB2IOCTLRequest_pack(m) ==
    LET input_count == Len(m.buffer)
        buffer_offset == SMB2IOCTLRequest_buffer_offset_value(m.buffer)
    IN  IF ~BytesFit(m.buffer, input_count) THEN Fail("buffer")
        ELSE Ok(<<F("structure_size", LE(57, 2)),
                  F("reserved", LE(0, 2)),
                  F("ctl_code", LE(0, 4)),
                  F("file_id", Zeros(16)),
                  F("input_offset", LE(buffer_offset, 4)),
                  F("input_count", LE(input_count, 4)),
                  F("max_input_response", LE(0, 4)),
                  F("output_offset", LE(buffer_offset, 4)),
                  F("output_count", LE(0, 4)),
                  F("max_output_response", LE(0, 4)),
                  F("flags", LE(0, 4)),
                  F("reserved2", LE(0, 4)),
                  F("buffer", m.buffer)>>)

\* ------------------------------------------------- field descriptor tables

\* what a default-value function or a size function reads from the record:
\* s['x'].get_value() reads the value of x, len(s['x']) reads its byte length
Value(x) == <<x, "value">>

Length(x) == <<x, "len">>

\* a field descriptor: the reads of its default-value function and of its
\* size function; a field with a constant (or no) default and size reads nothing
Field(name, default, size) == [name |-> name, default |-> default, size |-> size]

Fixed(name) == Field(name, {}, {})

DirectTCPPacket_fields ==
    <<Field("stream_protocol_length", {Length("smb2_message")}, {}),
      Field("smb2_message", {}, {Value("stream_protocol_length")})>>

SMB2ErrorResponse_fields ==
    <<Fixed("structure_size"),
      Field("error_context_count", {Value("error_data")}, {}),
      Fixed("reserved"),
      Field("byte_count", {Length("error_data")}, {}),
      Field("error_data", {}, {Value("byte_count")})>>

SMB2ErrorContextResponse_fields ==
    <<Field("error_data_length", {Length("error_context_data")}, {}),
      Fixed("error_id"),
      Field("error_context_data", {}, {Value("error_data_length")})>>

SMB1NegotiateRequest_fields ==
    <<Fixed("word_count"),
      Field("byte_count", {Length("dialects")}, {}),
      Field("dialects", {}, {Value("byte_count")})>>

SMB2NegotiateRequest_fields ==
    <<Fixed("structure_size"),
      Field("dialect_count", {Value("dialects")}, {}),
      Fixed("security_mode"),
      Fixed("reserved"),
      Fixed("capabilities"),
      Fixed("client_guid"),
      Fixed("client_start_time"),
      Field("dialects", {}, {Value("dialect_count")})>>

SMB3NegotiateRequest_fields ==
    <<Fixed("structure_size"),
      Field("dialect_count", {Value("dialects")}, {}),
      Fixed("security_mode"),
      Fixed("reserved"),
      Fixed("capabilities"),
      Fixed("client_guid"),
      Field("negotiate_context_offset",
            {Value("structure_size"), Length("dialects"),
             Value("dialect_count")}, {}),
      Field("negotiate_context_count", {Value("negotiate_context_list")}, {}),
      Fixed("reserved2"),
      Field("dialects", {}, {Value("dialect_count")}),
      Field("padding", {Value("dialect_count")}, {Value("dialect_count")}),
      Fixed("negotiate_context_list")>>

SMB2NegotiateContextRequest_fields ==
    <<Fixed("context_type"),
      Field("data_length", {Value("data")}, {}),
      Fixed("reserved"),
      Field("data", {}, {Value("data_length")}),
      Field("padding", {Length("data")}, {Length("data")})>>

SMB2PreauthIntegrityCapabilities_fields ==
    <<Field("hash_algorithm_count", {Value("hash_algorithms")}, {}),
      Field("salt_length", {Length("salt")}, {}),
      Field("hash_algorithms", {}, {Value("hash_algorithm_count")}),
      Field("salt", {}, {Value("salt_length")})>>

SMB2EncryptionCapabilities_fields ==
    <<Field("cipher_count", {Value("ciphers")}, {}),
      Field("ciphers", {}, {Value("cipher_count")})>>

SMB2NegotiateResponse_fields ==
    <<Fixed("structure_size"),
      Fixed("security_mode"),
      Fixed("dialect_revision"),
      Field("negotiate_context_count",
            {Value("dialect_revision"), Value("negotiate_context_list")}, {}),
      Fixed("server_guid"),
      Fixed("capabilities"),
      Fixed("max_transact_size"),
      Fixed("max_read_size"),
      Fixed("max_write_size"),
      Fixed("system_time"),
      Fixed("server_start_time"),
      Fixed("security_buffer_offset"),
      Field("security_buffer_length", {Value("buffer")}, {}),
      Field("negotiate_context_offset",
            {Value("dialect_revision"), Value("security_buffer_offset"),
             Value("security_buffer_length"),
             Value("negotiate_context_count")}, {}),
      Field("buffer", {}, {Value("security_buffer_length")}),
      Field("padding",
            {Value("negotiate_context_count"), Value("security_buffer_length")},
            {Value("negotiate_context_count"), Value("security_buffer_length")}),
      Fixed("negotiate_context_list")>>

SMB2SessionSetupRequest_fields ==
    <<Fixed("structure_size"),
      Fixed("flags"),
      Fixed("security_mode"),
      Fixed("capabilities"),
      Fixed("channel"),
      Fixed("security_buffer_offset"),
      Field("security_buffer_length", {Length("buffer")}, {}),
      Fixed("previous_session_id"),
      Field("buffer", {}, {Value("security_buffer_length")})>>

SMB2SessionSetupResponse_fields ==
    <<Fixed("structure_size"),
      Fixed("session_flags"),
      Fixed("security_buffer_offset"),
      Field("security_buffer_length", {Length("buffer")}, {}),
      Field("buffer", {}, {Value("security_buffer_length")})>>

SMB2TreeConnectRequest_fields ==
    <<Fixed("structure_size"),
      Fixed("flags"),
      Fixed("path_offset"),
      Field("path_length", {Length("buffer")}, {}),
      Fixed("buffer")>>

SMB2CreateRequest_fields ==
    <<Fixed("structure_size"),
      Fixed("security_flags"),
      Fixed("requested_oplock_level"),
      Fixed("impersonation_level"),
      Fixed("smb_create_flags"),
      Fixed("reserved"),
      Fixed("desired_access"),
      Fixed("file_attributes"),
      Fixed("share_access"),
      Fixed("create_disposition"),
      Fixed("create_options"),
      Fixed("name_offset"),
      Field("name_length", {Length("buffer_path")}, {}),
      Field("create_contexts_offset",
            {Length("buffer_context"), Value("name_offset"), Value("padding")},
            {}),
      Field("create_contexts_length", {Length("buffer_context")}, {}),
      Field("buffer_path", {}, {Value("name_length")}),
      Field("padding",
            {Length("buffer_context"), Value("name_length")},
            {Length("buffer_context"), Value("name_length")}),
      Field("buffer_context", {}, {Value("create_contexts_length")})>>

\* the entry's padding sized from data_offset instead of data_length
SMB2CreateContextRequest_fields_padding_from_offset ==
    <<Fixed("next"),
      Fixed("name_offset"),
      Field("name_length", {Length("buffer_name")}, {}),
      Fixed("reserved"),
      Field("data_offset",
            {Value("data_length"), Value("name_offset"), Length("padding")}, {}),
      Field("data_length", {Length("buffer_data")}, {}),
      Field("buffer_name", {}, {Value("name_length")}),
      Field("padding", {Value("data_offset")}, {Value("data_offset")}),
      Field("buffer_data", {}, {Value("data_length")})>>

SMB2CreateContextRequest_fields ==
    <<Fixed("next"),
      Fixed("name_offset"),
      Field("name_length", {Length("buffer_name")}, {}),
      Fixed("reserved"),
      Field("data_offset",
            {Value("data_length"), Value("name_offset"), Length("padding")}, {}),
      Field("data_length", {Length("buffer_data")}, {}),
      Field("buffer_name", {}, {Value("name_length")}),
      Field("padding", {Value("data_length")}, {Value("data_length")}),
      Field("buffer_data", {}, {Value("data_length")})>>

SMB2IOCTLRequest_fields ==
    <<Fixed("structure_size"),
      Fixed("reserved"),
      Fixed("ctl_code"),
      Fixed("file_id"),
      Field("input_offset", {Length("buffer"), Value("structure_size")}, {}),
      Field("input_count", {Length("buffer")}, {}),
      Fixed("max_input_response"),
      Field("output_offset", {Length("buffer"), Value("structure_size")}, {}),
      Fixed("output_count"),
      Fixed("max_output_response"),
      Fixed("flags"),
      Fixed("reserved2"),
      Field("buffer", {}, {Value("input_count")})>>

SMB2ValidateNegotiateInfoRequest_fields ==
    <<Fixed("capabilities"),
      Fixed("guid"),
      Fixed("security_mode"),
      Field("dialect_count", {Value("dialects")}, {}),
      Field("dialects", {}, {Value("dialect_count")})>>

SMB2IOCTLResponse_fields ==
    <<Fixed("structure_size"),
      Fixed("reserved"),
      Fixed("ctl_code"),
      Fixed("file_id"),
      Fixed("input_offset"),
      Fixed("input_count"),
      Fixed("output_offset"),
      Fixed("output_count"),
      Fixed("flags"),
      Fixed("reserved2"),
      Field("buffer", {}, {Value("output_count")})>>

\* the records of the catalog that have a default-value or a size function
Records ==
    {"DirectTCPPacket", "SMB2ErrorResponse", "SMB2ErrorContextResponse",
     "SMB1NegotiateRequest", "SMB2NegotiateRequest", "SMB3NegotiateRequest",
     "SMB2NegotiateContextRequest", "SMB2PreauthIntegrityCapabilities",
     "SMB2EncryptionCapabilities", "SMB2NegotiateResponse",
     "SMB2SessionSetupRequest", "SMB2SessionSetupResponse",
     "SMB2TreeConnectRequest", "SMB2CreateRequest", "SMB2CreateContextRequest",
     "SMB2IOCTLRequest", "SMB2ValidateNegotiateInfoRequest",
     "SMB2IOCTLResponse"}

Fields(record) ==
    CASE record = "DirectTCPPacket" -> DirectTCPPacket_fields
      [] record = "SMB2ErrorResponse" -> SMB2ErrorResponse_fields
      [] record = "SMB2ErrorContextResponse" -> SMB2ErrorContextResponse_fields
      [] record = "SMB1NegotiateRequest" -> SMB1NegotiateRequest_fields
      [] record = "SMB2NegotiateRequest" -> SMB2NegotiateRequest_fields
      [] record = "SMB3NegotiateRequest" -> SMB3NegotiateRequest_fields
      [] record = "SMB2NegotiateContextRequest"
             -> SMB2NegotiateContextRequest_fields
      [] record = "SMB2PreauthIntegrityCapabilities"
             -> SMB2PreauthIntegrityCapabilities_fields
      [] record = "SMB2EncryptionCapabilities"
             -> SMB2EncryptionCapabilities_fields
      [] record = "SMB2NegotiateResponse" -> SMB2NegotiateResponse_fields
      [] record = "SMB2SessionSetupRequest" -> SMB2SessionSetupRequest_fields
      [] record = "SMB2SessionSetupResponse" -> SMB2SessionSetupResponse_fields
      [] record = "SMB2TreeConnectRequest" -> SMB2TreeConnectRequest_fields
      [] record = "SMB2CreateRequest" -> SMB2CreateRequest_fields
      [] record = "SMB2CreateContextRequest" -> SMB2CreateContextRequest_fields
      [] record = "SMB2IOCTLRequest" -> SMB2IOCTLRequest_fields
      [] record = "SMB2ValidateNegotiateInfoRequest"
             -> SMB2ValidateNegotiateInfoRequest_fields
      [] record = "SMB2IOCTLResponse" -> SMB2IOCTLResponse_fields

\* the position of a named field in the declared order
Declared(fields, name) == IndexOf(fields, name, 1)

\* one step of resolving a field for pack: its value comes from its default
\* function, its size from its size function, and its byte length is the
\* length of its value
Reads(fields, node) ==
    LET field == fields[Declared(fields, node[1])]
    IN  IF node[2] = "size" THEN field.size
        ELSE IF node[2] = "len" THEN {Value(node[1])}
        ELSE field.default

\* pack resolves the value and the size of every field
Resolved(fields) ==
    {<<fields[i].name, what>> : i \in 1..Len(fields), what \in {"value", "size"}}

\* no resolution appears twice on the path of resolutions in progress
NoRepeat(path) == \A i, j \in 1..Len(path) : path[i] = path[j] => i = j

\* ---------------------------------------------------------------- inputs

SampleBytes == {0, 7, 255}

RECURSIVE BufsOfLen(_)
BufsOfLen(n) ==
    IF n = 0 THEN {<<>>}
    ELSE {<<b>> \o s : b \in SampleBytes, s \in BufsOfLen(n - 1)}

Bufs(n) == UNION {BufsOfLen(k) : k \in 0..n}

RECURSIVE SeqsOfLen(_, _)
SeqsOfLen(S, n) ==
    IF n = 0 THEN {<<>>}
    ELSE {<<x>> \o s : x \in S, s \in SeqsOfLen(S, n - 1)}

SeqsUpTo(S, n) == UNION {SeqsOfLen(S, k) : k \in 0..n}

\* messages a caller populates: logical content only, or a length set too
DirectTCPPackets ==
    [stream_protocol_length : {Unset} \cup {SetTo(n) : n \in 0..(MaxBuf + 1)},
     smb2_message : Bufs(MaxBuf)]

Encryption(ciphers) ==
    [context_type |-> SMB2_ENCRYPTION_CAPABILITIES,
     data |-> [st |-> "SMB2EncryptionCapabilities", ciphers |-> ciphers]]

Preauth(salt) ==
    [context_type |-> SMB2_PREAUTH_INTEGRITY_CAPABILITIES,
     data |-> [st |-> "SMB2PreauthIntegrityCapabilities",
               hash_algorithms |-> <<1>>, salt |-> salt]]

\* bodies of 4, 6, 8 and 16 bytes
NegotiateContexts ==
    {Encryption(<<1>>), Encryption(<<1, 2>>), Encryption(<<1, 2, 1>>),
     Preauth(<<>>), Preauth(<<7, 7>>), Preauth(Zeros(10))}

\* single entries: the bodies above, and raw bodies of every length
SMB2NegotiateContextRequests ==
    NegotiateContexts
        \cup {[context_type |-> 3, data |-> RawData(Zeros(n))] : n \in 0..MaxBody}

DialectCodes == <<514, 528, 785, 768, 770>>

SMB3NegotiateRequests ==
    [dialects : {[i \in 1..n |-> DialectCodes[((i - 1) % 5) + 1]] :
                     n \in 0..MaxDialects},
     negotiate_context_list : SeqsUpTo(NegotiateContexts, MaxContexts)]

SMB2NegotiateResponses ==
    [dialect_revision : {SMB_3_1_1, 770, 528},
     buffer : {Zeros(n) : n \in 0..MaxSecurityBuffer},
     negotiate_context_list : SeqsUpTo(NegotiateContexts, MaxContexts)]

\* a context list as a peer lays it out: each entry padded with zero bytes to
\* the next 8-byte boundary; a malformed entry declares extra more bytes
\* than its body holds
PeerPad(n) == (8 - (n % 8)) % 8

PeerBodies ==
    {<<SMB2_ENCRYPTION_CAPABILITIES, <<3, 0, 1, 0, 2, 0, 1, 0>>>>,
     <<SMB2_ENCRYPTION_CAPABILITIES, <<1, 0, 1, 0>>>>,
     <<SMB2_PREAUTH_INTEGRITY_CAPABILITIES, <<1, 0, 2, 0, 1, 0, 7, 7>>>>,
     <<3, <<7, 7, 7, 7, 7, 7, 7, 7>>>>,
     <<3, <<7, 7, 7, 7, 7, 7>>>>}

PeerContexts ==
    {[context_type |-> tb[1], body |-> tb[2], extra |-> x] :
         tb \in PeerBodies, x \in {0, 8}}

PeerContextBytes(e) ==
    LE(e.context_type, 2) \o LE(Len(e.body) + e.extra, 2) \o LE(0, 4)
        \o e.body \o Zeros(PeerPad(Len(e.body)))

PeerContextLists ==
    [negotiate_context_count : 0..(MaxContexts + 1),
     entries : SeqsUpTo(PeerContexts, MaxContexts)]

PeerContextListBytes(m) ==
    Concat([i \in 1..Len(m.entries) |-> PeerContextBytes(m.entries[i])])

\* create contexts a caller chains: next is the packed length of the entry,
\* 0 in the last one
CreateContextContents ==
    {[buffer_name |-> <<77, 120, 65, 99>>, buffer_data |-> <<>>],
     [buffer_name |-> <<77, 120, 65, 99>>, buffer_data |-> Zeros(8)],
     [buffer_name |-> <<81, 70, 105, 100>>, buffer_data |-> Zeros(4)],
     [buffer_name |-> Zeros(8), buffer_data |-> <<>>]}

Chained(contents) ==
    [i \in 1..Len(contents) |->
        [next |-> IF i = Len(contents) THEN 0
                  ELSE Len(Wire(SMB2CreateContextRequest_pack(
                           [next |-> 0,
                            buffer_name |-> contents[i].buffer_name,
                            buffer_data |-> contents[i].buffer_data]))),
         buffer_name |-> contents[i].buffer_name,
         buffer_data |-> contents[i].buffer_data]]

SMB2CreateRequests ==
    [buffer_path : {Zeros(n) : n \in 0..MaxSecurityBuffer},
     buffer_context : {Chained(c) : c \in SeqsUpTo(CreateContextContents,
                                                   MaxContexts)}]

\* single create contexts: every name length with every data length
SMB2CreateContextRequests ==
    [next : {0},
     buffer_name : {Zeros(n) : n \in 0..MaxSecurityBuffer},
     buffer_data : {Zeros(n) : n \in 0..MaxSecurityBuffer}]

\* a create-context chain as a peer lays it out: the name at offset 16, zero
\* padding to the next 8-byte boundary, the data, zero padding to the next
\* 8-byte boundary.  link is "next" (the offset of the following entry),
\* "last" (0) or "outside" (an offset past the end of the buffer)
PeerCreateContents ==
    {[buffer_name |-> Zeros(8), buffer_data |-> <<>>],
     [buffer_name |-> <<77, 120, 65, 99>>, buffer_data |-> <<>>],
     [buffer_name |-> <<77, 120, 65, 99>>, buffer_data |-> Zeros(8)]}

PeerCreateContexts ==
    {[buffer_name |-> c.buffer_name, buffer_data |-> c.buffer_data, link |-> l] :
         c \in PeerCreateContents, l \in {"next", "last", "outside"}}

PeerCreateContextLen(e) ==
    LET named == 16 + Len(e.buffer_name) + PeerPad(Len(e.buffer_name))
    IN  named + Len(e.buffer_data) + PeerPad(Len(e.buffer_data))

RECURSIVE SumLen(_)
SumLen(entries) ==
    IF entries = <<>> THEN 0
    ELSE PeerCreateContextLen(Head(entries)) + SumLen(Tail(entries))

\* the next value of entry i of a chain
PeerNext(entries, i) ==
    IF entries[i].link = "last" THEN 0
    ELSE IF entries[i].link = "next" THEN PeerCreateContextLen(entries[i])
    ELSE SumLen(entries) + 8

PeerCreateContextBytes(entries, i) ==
    LET e == entries[i]
        data_offset == IF e.buffer_data = <<>> THEN 0
                       ELSE 16 + Len(e.buffer_name) + PeerPad(Len(e.buffer_name))
    IN  LE(PeerNext(entries, i), 4) \o LE(16, 2) \o LE(Len(e.buffer_name), 2)
            \o LE(0, 2) \o LE(data_offset, 2) \o LE(Len(e.buffer_data), 4)
            \o e.buffer_name \o Zeros(PeerPad(Len(e.buffer_name)))
            \o e.buffer_data \o Zeros(PeerPad(Len(e.buffer_data)))

PeerCreateChains ==
    [entries : SeqsUpTo(PeerCreateContexts, MaxChain) \ {<<>>},
     cut : {0, 4}]

PeerCreateChainBytes(m) ==
    LET all == Concat([i \in 1..Len(m.entries) |->
                          PeerCreateContextBytes(m.entries, i)])
    IN  Take(all, Len(all) - m.cut)

\* an error response as a peer lays it out
PeerErrorContexts ==
    {[error_id |-> 0, error_context_data |-> Zeros(8)],
     [error_id |-> 5, error_context_data |-> <<>>],
     [error_id |-> 7, error_context_data |-> <<7, 7, 7, 7>>]}

PeerErrorResponses ==
    [reserved : {0, 1, 128, 255},
     error_data : SeqsUpTo(PeerErrorContexts, MaxContexts)]

PeerErrorResponseBytes(m) ==
    LET error_data ==
            Concat([i \in 1..Len(m.error_data) |->
                       Wire(SMB2ErrorContextResponse_pack(m.error_data[i]))])
    IN  LE(9, 2) \o LE(Len(m.error_data), 1) \o LE(m.reserved, 1)
            \o LE(Len(error_data), 4) \o error_data

\* ----------------------------------------------------------- state machine

Received(data) == Ok(<<F("data", data)>>)

Populated ==
    \/ kind = "DirectTCPPacket" /\ msg \in DirectTCPPackets
    \/ kind = "SMB3NegotiateRequest" /\ msg \in SMB3NegotiateRequests
    \/ kind = "SMB2NegotiateResponse" /\ msg \in SMB2NegotiateResponses
    \/ kind = "SMB2CreateRequest" /\ msg \in SMB2CreateRequests
    \/ kind = "SMB1NegotiateRequest" /\ msg \in [dialects : Bufs(MaxBuf)]
    \/ kind = "SMB2NegotiateRequest"
           /\ msg \in [dialects : {[i \in 1..n |-> DialectCodes[((i - 1) % 5) + 1]] :
                                    n \in 0..MaxDialects}]
    \/ kind = "SMB2SessionSetupRequest" /\ msg \in [buffer : Bufs(MaxBuf)]
    \/ kind = "SMB2TreeConnectRequest" /\ msg \in [buffer : Bufs(MaxBuf)]
    \/ kind = "SMB2SessionSetupResponse" /\ msg \in [buffer : Bufs(MaxBuf)]
    \/ kind = "SMB2PacketHeader" /\ msg \in [data : Bufs(MaxBuf)]
    \/ kind = "SMB2IOCTLRequest" /\ msg \in [buffer : Bufs(MaxBuf)]
    \/ kind = "SMB2NegotiateContextRequest"
           /\ msg \in SMB2NegotiateContextRequests
    \/ kind = "SMB2CreateContextRequest" /\ msg \in SMB2CreateContextRequests

Init ==
    /\ decoded = Bad("none")
    /\ \/ /\ pc = "populated"
          /\ Populated
          /\ packed = None
       \/ /\ pc = "received"
          /\ kind \in {"SMB3NegotiateRequest.negotiate_context_list",
                       "SMB2NegotiateResponse.negotiate_context_list"}
          /\ msg \in PeerContextLists
          /\ packed = Received(PeerContextListBytes(msg))
       \/ /\ pc = "received"
          /\ kind = "SMB2CreateRequest.buffer_context"
          /\ msg \in PeerCreateChains
          /\ packed = Received(PeerCreateChainBytes(msg))
       \/ /\ pc = "received"
          /\ kind = "SMB2ErrorResponse"
          /\ msg \in PeerErrorResponses
          /\ packed = Received(PeerErrorResponseBytes(msg))
       \/ /\ pc = "declared"
          /\ kind \in Records
          /\ msg = Fields(kind)
          /\ packed = None

Pack(k, result) ==
    /\ pc = "populated"
    /\ kind = k
    /\ packed' = result
    /\ pc' = "packed"
    /\ UNCHANGED <<kind, msg, decoded>>

Unpack(from, k, result) ==
    /\ pc = from
    /\ kind = k
    /\ packed.ok
    /\ decoded' = result
    /\ pc' = "decoded"
    /\ UNCHANGED <<kind, msg, packed>>

PackDirectTCPPacket ==
    Pack("DirectTCPPacket", DirectTCPPacket_pack(msg))

PackSMB3NegotiateRequest ==
    Pack("SMB3NegotiateRequest", SMB3NegotiateRequest_pack(msg))

PackSMB2NegotiateResponse ==
    Pack("SMB2NegotiateResponse", SMB2NegotiateResponse_pack(msg))

PackSMB2CreateRequest ==
    Pack("SMB2CreateRequest", SMB2CreateRequest_pack(msg))

PackSMB1NegotiateRequest ==
    Pack("SMB1NegotiateRequest", SMB1NegotiateRequest_pack(msg))

PackSMB2NegotiateRequest ==
    Pack("SMB2NegotiateRequest", SMB2NegotiateRequest_pack(msg))

PackSMB2SessionSetupRequest ==
    Pack("SMB2SessionSetupRequest", SMB2SessionSetupRequest_pack(msg))

PackSMB2SessionSetupResponse ==
    Pack("SMB2SessionSetupResponse", SMB2SessionSetupResponse_pack(msg))

PackSMB2PacketHeader ==
    Pack("SMB2PacketHeader", SMB2PacketHeader_pack(msg))

PackSMB2TreeConnectRequest ==
    Pack("SMB2TreeConnectRequest", SMB2TreeConnectRequest_pack(msg))

PackSMB2IOCTLRequest ==
    Pack("SMB2IOCTLRequest", SMB2IOCTLRequest_pack(msg))

PackSMB2NegotiateContextRequest ==
    Pack("SMB2NegotiateContextRequest", Ok(SMB2NegotiateContextRequest_pack(msg)))

PackSMB2CreateContextRequest ==
    Pack("SMB2CreateContextRequest", Ok(SMB2CreateContextRequest_pack(msg)))

UnpackSMB3NegotiateRequest ==
    Unpack("packed", "SMB3NegotiateRequest",
           SMB3NegotiateRequest_unpack(Wire(packed.fields)))

UnpackSMB2NegotiateResponse ==
    Unpack("packed", "SMB2NegotiateResponse",
           SMB2NegotiateResponse_unpack(Wire(packed.fields)))

UnpackRequestContextList ==
    Unpack("received", "SMB3NegotiateRequest.negotiate_context_list",
           SMB3NegotiateRequest_negotiate_context_list(
               msg.negotiate_context_count, Wire(packed.fields), <<>>))

UnpackResponseContextList ==
    Unpack("received", "SMB2NegotiateResponse.negotiate_context_list",
           SMB2NegotiateResponse_negotiate_context_list(
               msg.negotiate_context_count, Wire(packed.fields), <<>>))

UnpackCreateContextChain ==
    Unpack("received", "SMB2CreateRequest.buffer_context",
           SMB2CreateRequest_buffer_context_list(Wire(packed.fields), <<>>))

UnpackSMB2ErrorResponse ==
    Unpack("received", "SMB2ErrorResponse",
           SMB2ErrorResponse_unpack(Wire(packed.fields)))

\* unpack consumes the next field in declared order, resolving its size
CurrentFields == IF pc = "declared" THEN <<>> ELSE decoded.value

UnpackField ==
    /\ pc \in {"declared", "unpacking"}
    /\ Len(CurrentFields) < Len(msg)
    /\ decoded' = Got(Append(CurrentFields, msg[Len(CurrentFields) + 1].name),
                      <<>>)
    /\ pc' = "unpacking"
    /\ UNCHANGED <<kind, msg, packed>>

\* pack resolves a field on demand: the function being evaluated reads
\* another field, whose resolution starts while this one is in progress
InProgress == IF pc = "declared" THEN <<>> ELSE packed.fields

ResolveField ==
    /\ pc \in {"declared", "resolving"}
    /\ NoRepeat(InProgress)
    /\ \E node \in (IF InProgress = <<>> THEN Resolved(msg)
                    ELSE Reads(msg, InProgress[Len(InProgress)])) :
           packed' = Ok(Append(InProgress, node))
    /\ pc' = "resolving"
    /\ UNCHANGED <<kind, msg, decoded>>

Next ==
    \/ PackDirectTCPPacket
    \/ PackSMB3NegotiateRequest
    \/ PackSMB2NegotiateResponse
    \/ PackSMB2CreateRequest
    \/ PackSMB1NegotiateRequest
    \/ PackSMB2NegotiateRequest
    \/ PackSMB2SessionSetupRequest
    \/ PackSMB2SessionSetupResponse
    \/ PackSMB2PacketHeader
    \/ PackSMB2TreeConnectRequest
    \/ PackSMB2IOCTLRequest
    \/ PackSMB2NegotiateContextRequest
    \/ PackSMB2CreateContextRequest
    \/ UnpackSMB3NegotiateRequest
    \/ UnpackSMB2NegotiateResponse
    \/ UnpackRequestContextList
    \/ UnpackResponseContextList
    \/ UnpackCreateContextChain
    \/ UnpackSMB2ErrorResponse
    \/ UnpackField
    \/ ResolveField

Spec == Init /\ [][Next]_vars

\* ---------------------------------------------------------------- claims

\* the number a packed field holds
FieldInt(name) == FromLE(Get(packed.fields, name))

\* C1: decoding a create-context chain of n >= 1 entries in which only the
\* last entry has next = 0 yields a list of exactly n entries in chain order
C1_WellFormedChain ==
    /\ kind = "SMB2CreateRequest.buffer_context"
    /\ msg.cut = 0
    /\ \A i \in 1..Len(msg.entries) :
           msg.entries[i].link = IF i = Len(msg.entries) THEN "last" ELSE "next"

\* C1 (formula): the decoded list of a well-formed chain is the chain
C1_ChainDecodesInOrder ==
    (pc = "decoded" /\ C1_WellFormedChain) =>
        /\ decoded.ok
        /\ Len(decoded.value) = Len(msg.entries)
        /\ \A i \in 1..Len(msg.entries) :
               /\ decoded.value[i].next = PeerNext(msg.entries, i)
               /\ decoded.value[i].buffer_name = msg.entries[i].buffer_name
               /\ decoded.value[i].buffer_data = msg.entries[i].buffer_data

\* C2: unpacking a packed SMB3NegotiateRequest returns its k negotiate
\* contexts in order, each with the packed context_type, data_length and body
C2_RequestContextsRoundTrip ==
    (pc = "decoded" /\ kind = "SMB3NegotiateRequest") =>
        /\ decoded.ok
        /\ LET sent == msg.negotiate_context_list
               got == decoded.value.negotiate_context_list
           IN  /\ Len(got) = Len(sent)
               /\ \A i \in 1..Len(sent) :
                      /\ got[i].context_type = sent[i].context_type
                      /\ got[i].data_length = Len(PackData(sent[i].data))
                      /\ got[i].data = sent[i].data

\* C3: in a packed SMB3NegotiateRequest with at least one negotiate context
\* the first context begins at a multiple of 8 from the start of the header,
\* and negotiate_context_offset, which names that position, is a multiple of 8
C3_FirstContextAligned ==
    (pc = "packed" /\ kind = "SMB3NegotiateRequest"
        /\ msg.negotiate_context_list # <<>>) =>
        /\ packed.ok
        /\ FieldInt("negotiate_context_offset") % 8 = 0
        /\ (header_size + PositionOf(packed.fields, "negotiate_context_list"))
               % 8 = 0

\* C4: a packed SMB2NegotiateResponse whose dialect_revision is not SMB 3.1.1
\* has negotiate_context_count = 0 and negotiate_context_offset = 0 whatever
\* its context list holds; with SMB 3.1.1 the count is the number of contexts
\* and the offset is 128 + the security buffer length + the padding length,
\* the position of the first context from the start of the header
C4_ResponseGating ==
    (pc = "packed" /\ kind = "SMB2NegotiateResponse") =>
        /\ packed.ok
        /\ IF msg.dialect_revision # SMB_3_1_1
           THEN /\ FieldInt("negotiate_context_count") = 0
                /\ FieldInt("negotiate_context_offset") = 0
           ELSE /\ FieldInt("negotiate_context_count")
                       = Len(msg.negotiate_context_list)
                /\ FieldInt("negotiate_context_offset")
                       = 128 + Len(Get(packed.fields, "buffer"))
                             + Len(Get(packed.fields, "padding"))
                /\ FieldInt("negotiate_context_offset")
                       = 64 + PositionOf(packed.fields, "negotiate_context_list")

C4_Witness ==
    /\ pc = "packed"
    /\ kind = "SMB2NegotiateResponse"
    /\ packed.ok
    /\ msg.dialect_revision = SMB_3_1_1
    /\ Len(msg.negotiate_context_list) = 2
    /\ Len(Get(packed.fields, "padding")) = 5
    /\ FieldInt("negotiate_context_offset") = 136

\* C5: packing an SMB2CreateRequest with at least one create context succeeds
\* and create_contexts_offset is the position of the first context from the
\* start of the header: name_offset (120) + name_length + the padding length,
\* a multiple of 8
C5_CreateContextsOffset ==
    (pc = "packed" /\ kind = "SMB2CreateRequest" /\ msg.buffer_context # <<>>) =>
        /\ packed.ok
        /\ FieldInt("create_contexts_offset")
               = header_size + PositionOf(packed.fields, "buffer_context")
        /\ FieldInt("create_contexts_offset")
               = 120 + Len(msg.buffer_path)
                     + Len(Get(packed.fields, "padding"))
        /\ FieldInt("create_contexts_offset") % 8 = 0

\* C6: decoding an SMB2ErrorResponse whose error_context_count is c and whose
\* error_data holds c well-formed entries yields a list of c entries, each
\* with the error_id and the data that were on the wire
C6_ErrorContextsDecoded ==
    (pc = "decoded" /\ kind = "SMB2ErrorResponse") =>
        /\ decoded.ok
        /\ Len(decoded.value.error_data) = Len(msg.error_data)
        /\ \A i \in 1..Len(msg.error_data) :
               /\ decoded.value.error_data[i].error_id
                      = msg.error_data[i].error_id
               /\ decoded.value.error_data[i].error_context_data
                      = msg.error_data[i].error_context_data

\* C7: every populated DirectTCPPacket packs, and its 4-byte big-endian
\* stream_protocol_length is the byte length of smb2_message, also when the
\* caller set stream_protocol_length to another value before pack
C7_LengthPrefixRecomputed ==
    (pc = "packed" /\ kind = "DirectTCPPacket") =>
        /\ packed.ok
        /\ FromBE(Get(packed.fields, "stream_protocol_length"))
               = Len(msg.smb2_message)
        /\ Get(packed.fields, "smb2_message") = msg.smb2_message

\* C8: a chain is broken when, following next from the first entry, an entry's
\* next points outside the buffer or the buffer ends before an entry with
\* next = 0; decoding a broken chain ends in a decode failure
RECURSIVE C8_ChainBroken(_, _)
C8_ChainBroken(data, p) ==
    IF p + 16 > Len(data) THEN TRUE
    ELSE LET next == FromLE(Slice(data, p, p + 4))
         IN  IF next = 0 THEN FALSE
             ELSE IF p + next >= Len(data) THEN TRUE
             ELSE C8_ChainBroken(data, p + next)

\* C8 (formula): decoding a broken chain does not return a list
C8_BrokenChainFails ==
    (pc = "decoded" /\ kind = "SMB2CreateRequest.buffer_context"
        /\ C8_ChainBroken(Wire(packed.fields), 0)) => ~decoded.ok

\* C9: decoding a negotiate-context list (request or response decoder) whose
\* negotiate_context_count is larger than the number of entries present, or in
\* which an entry's data_length is larger than the bytes remaining after its
\* 8-byte entry header, reports a decode failure; no returned entry has a
\* body shorter than its data_length
C9_ListKinds ==
    {"SMB3NegotiateRequest.negotiate_context_list",
     "SMB2NegotiateResponse.negotiate_context_list"}

C9_Start(entries, i) ==
    Len(Concat([j \in 1..(i - 1) |-> PeerContextBytes(entries[j])]))

C9_Short ==
    \/ msg.negotiate_context_count > Len(msg.entries)
    \/ \E i \in 1..Min(msg.negotiate_context_count, Len(msg.entries)) :
           Len(msg.entries[i].body) + msg.entries[i].extra
               > Len(Wire(packed.fields)) - (C9_Start(msg.entries, i) + 8)

\* C9 (formula): a short list fails to decode; no body is cut short
C9_TruncationFails ==
    (pc = "decoded" /\ kind \in C9_ListKinds) =>
        /\ C9_Short => ~decoded.ok
        /\ decoded.ok =>
               \A i \in 1..Len(decoded.value) :
                   /\ Len(PackData(decoded.value[i].data))
                          <= decoded.value[i].data_length
                   /\ decoded.value[i].data.st = "bytes" =>
                          Len(decoded.value[i].data.raw)
                              = decoded.value[i].data_length

C9_Witness ==
    /\ pc = "decoded"
    /\ kind = "SMB2NegotiateResponse.negotiate_context_list"
    /\ msg.negotiate_context_count = 2
    /\ Len(msg.entries) = 2
    /\ msg.entries[1].extra = 0
    /\ Len(msg.entries[1].body) = 8
    /\ msg.entries[2].extra = 8
    /\ ~decoded.ok
    /\ decoded.err = "data"

\* C10: decoding a well-formed negotiate-context list in which an entry has a
\* context_type other than the two known ones does not abort: that entry is
\* returned with its data_length raw body bytes, and every other entry is
\* decoded as its type says
C10_WellFormedWithUnknown ==
    /\ kind \in C9_ListKinds
    /\ msg.negotiate_context_count = Len(msg.entries)
    /\ \A i \in 1..Len(msg.entries) : msg.entries[i].extra = 0
    /\ \E i \in 1..Len(msg.entries) :
           NegotiateContext_data_structure_type(msg.entries[i].context_type)
               = "None"

\* C10 (formula): the unknown entry is kept raw, the others decode as usual
C10_UnknownTypeKept ==
    (pc = "decoded" /\ C10_WellFormedWithUnknown) =>
        /\ decoded.ok
        /\ Len(decoded.value) = Len(msg.entries)
        /\ \A i \in 1..Len(msg.entries) :
               LET e == msg.entries[i]
                   st == NegotiateContext_data_structure_type(e.context_type)
               IN  /\ decoded.value[i].context_type = e.context_type
                   /\ decoded.value[i].data_length = Len(e.body)
                   /\ decoded.value[i].data
                          = IF st = "None" THEN RawData(e.body)
                            ELSE UnpackData(st, e.body).value

\* C11: in every catalog record the size function of each field reads only
\* fields declared earlier, so during unpack no field's size is resolved from
\* a field that has not yet been decoded; this includes the padding field of
\* SMB2CreateRequest, which precedes buffer_context
C11_SizeReadsEarlierFields ==
    pc = "unpacking" =>
        LET i == Len(decoded.value)
        IN  \A read \in msg[i].size : Declared(msg, read[1]) < i

C12_NegotiateEntryAligned ==
    /\ (pc = "packed" /\ kind = "SMB2NegotiateContextRequest") =>
           /\ packed.ok
           /\ Len(Wire(packed.fields))
                  = 8 + Len(PackData(msg.data))
                      + Len(Get(packed.fields, "padding"))
           /\ Get(packed.fields, "data") = PackData(msg.data)
           /\ Len(Wire(packed.fields)) % 8 = 0
    /\ (pc = "packed" /\ kind \in {"SMB3NegotiateRequest", "SMB2NegotiateResponse"}
           /\ packed.ok) =>
           \A i \in 1..Len(msg.negotiate_context_list) :
               LET before == PackContextList(
                                 SubSeq(msg.negotiate_context_list, 1, i - 1))
                   entry == Wire(SMB2NegotiateContextRequest_pack(
                                     msg.negotiate_context_list[i]))
                   list == Get(packed.fields, "negotiate_context_list")
               IN  /\ Len(before) % 8 = 0
                   /\ Slice(list, Len(before), Len(before) + Len(entry)) = entry

C12_Witness ==
    /\ pc = "packed"
    /\ kind = "SMB2NegotiateContextRequest"
    /\ Len(Get(packed.fields, "data")) = 16
    /\ Len(Get(packed.fields, "padding")) = 8
    /\ Len(Wire(packed.fields)) = 32

\* C13: for every name length and data length a packed
\* SMB2CreateContextRequest entry (16-byte fixed part + name + padding + data)
\* has a total length that is a multiple of 8, so in a chain of packed
\* entries every entry after the first starts at a multiple of 8
C13_CreateEntryAligned ==
    (pc = "packed" /\ kind = "SMB2CreateContextRequest") =>
        /\ packed.ok
        /\ Len(Wire(packed.fields))
               = 16 + Len(msg.buffer_name) + Len(Get(packed.fields, "padding"))
                    + Len(msg.buffer_data)
        /\ Len(Wire(packed.fields)) % 8 = 0

\* C19: in a packed SMB2CreateContextRequest entry with data_length > 0,
\* data_offset is the position of buffer_data from the start of the entry,
\* name_offset (16) + name_length + the padding length, a multiple of 8; with
\* data_length = 0, data_offset is 0 and the padding is empty
C19_DataOffset ==
    (pc = "packed" /\ kind = "SMB2CreateContextRequest") =>
        /\ packed.ok
        /\ IF Len(msg.buffer_data) > 0
           THEN /\ FieldInt("data_offset")
                       = PositionOf(packed.fields, "buffer_data")
                /\ FieldInt("data_offset")
                       = 16 + FieldInt("name_length")
                            + Len(Get(packed.fields, "padding"))
                /\ FieldInt("data_offset") % 8 = 0
           ELSE /\ FieldInt("data_offset") = 0
                /\ Get(packed.fields, "padding") = <<>>

C15_Governs(length, content) ==
    /\ FieldInt(length) = Len(Get(packed.fields, content))
    /\ Get(packed.fields, content) = msg[content]

\* C15 (formula): counts and lengths of the packed message match its content
C15_CountsAndLengths ==
    (pc = "packed" /\ packed.ok) =>
        /\ kind \in {"SMB2NegotiateRequest", "SMB3NegotiateRequest"} =>
               /\ FieldInt("dialect_count") = Len(msg.dialects)
               /\ Len(Get(packed.fields, "dialects"))
                      = 2 * FieldInt("dialect_count")
               /\ UnpackCodes(Get(packed.fields, "dialects"),
                              FieldInt("dialect_count")) = msg.dialects
        /\ kind = "SMB2NegotiateContextRequest" =>
               LET data == Get(packed.fields, "data")
               IN  /\ FieldInt("data_length") = Len(data)
                   /\ msg.data.st = "SMB2EncryptionCapabilities" =>
                          /\ FromLE(Slice(data, 0, 2)) = Len(msg.data.ciphers)
                          /\ Len(data) = 2 + 2 * Len(msg.data.ciphers)
                   /\ msg.data.st = "SMB2PreauthIntegrityCapabilities" =>
                          /\ FromLE(Slice(data, 0, 2))
                                 = Len(msg.data.hash_algorithms)
                          /\ FromLE(Slice(data, 2, 4)) = Len(msg.data.salt)
                          /\ Len(data) = 4 + 2 * Len(msg.data.hash_algorithms)
                                           + Len(msg.data.salt)
        /\ kind \in {"SMB2NegotiateResponse", "SMB2SessionSetupRequest"} =>
               C15_Governs("security_buffer_length", "buffer")
        /\ kind = "SMB1NegotiateRequest" => C15_Governs("byte_count", "dialects")
        /\ kind = "SMB2TreeConnectRequest" => C15_Governs("path_length", "buffer")
        /\ kind = "SMB2CreateRequest" => C15_Governs("name_length", "buffer_path")
        /\ kind = "SMB2CreateContextRequest" =>
               C15_Governs("name_length", "buffer_name")
        /\ kind = "SMB2IOCTLRequest" => C15_Governs("input_count", "buffer")

C15_Witness ==
    /\ pc = "packed"
    /\ kind = "SMB2NegotiateContextRequest"
    /\ msg.data.st = "SMB2PreauthIntegrityCapabilities"
    /\ Len(msg.data.salt) = 10
    /\ Slice(Get(packed.fields, "data"), 0, 4) = <<1, 0, 10, 0>>
    /\ FieldInt("data_length") = 16

\* C16: packing an SMB2CreateRequest with an empty create-context list yields
\* create_contexts_offset = 0, create_contexts_length = 0 and an empty padding
\* field, for every file-name length, so the packed body is exactly the 56
\* fixed bytes followed by the file-name bytes
C16_NoContexts ==
    (pc = "packed" /\ kind = "SMB2CreateRequest" /\ msg.buffer_context = <<>>) =>
        /\ packed.ok
        /\ FieldInt("create_contexts_offset") = 0
        /\ FieldInt("create_contexts_length") = 0
        /\ Get(packed.fields, "padding") = <<>>
        /\ Get(packed.fields, "buffer_context") = <<>>
        /\ PositionOf(packed.fields, "buffer_path") = 56
        /\ Len(Wire(packed.fields)) = 56 + Len(msg.buffer_path)
        /\ Drop(Wire(packed.fields), 56) = msg.buffer_path

C16_Witness ==
    /\ pc = "packed"
    /\ kind = "SMB2CreateRequest"
    /\ msg.buffer_context = <<>>
    /\ Len(msg.buffer_path) = 3
    /\ packed.ok
    /\ Len(Wire(packed.fields)) = 59

\* C17: decoding an SMB2ErrorResponse whose error_context_count is 0 and
\* whose byte_count is 0 yields an empty error_data list and byte_count = 0,
\* for every value of the 1-byte reserved field
C17_NoErrorContexts ==
    (pc = "decoded" /\ kind = "SMB2ErrorResponse" /\ msg.error_data = <<>>) =>
        /\ Slice(Wire(packed.fields), 2, 3) = <<0>>
        /\ Slice(Wire(packed.fields), 4, 8) = <<0, 0, 0, 0>>
        /\ decoded.ok
        /\ decoded.value.error_data = <<>>
        /\ decoded.value.byte_count = 0
        /\ decoded.value.error_context_count = 0
        /\ decoded.value.reserved = msg.reserved
        /\ decoded.rest = <<>>

C17_Witness ==
    /\ pc = "decoded"
    /\ kind = "SMB2ErrorResponse"
    /\ Wire(packed.fields) = <<9, 0, 0, 255, 0, 0, 0, 0>>
    /\ decoded.ok
    /\ decoded.value.error_data = <<>>

\* C20: for every negotiate-context body length n >= 0 the padding appended
\* to a packed SMB2NegotiateContextRequest entry is the minimal zero padding
\* to the next 8-byte boundary: its length is (8 - n mod 8) mod 8, hence
\* between 0 and 7, and 0 when n is a multiple of 8 (including 0 and 16)
C20_MinimalPadding ==
    (pc = "packed" /\ kind = "SMB2NegotiateContextRequest") =>
        LET n == Len(Get(packed.fields, "data"))
            padding == Get(packed.fields, "padding")
        IN  /\ packed.ok
            /\ padding = Zeros((8 - (n % 8)) % 8)
            /\ Len(padding) \in 0..7
            /\ n % 8 = 0 => padding = <<>>

\* C21: for every SMB2NegotiateResponse with dialect_revision SMB 3.1.1
\* carrying k >= 1 negotiate contexts of any body length, the number of bytes
\* the response decoder advances past each entry (8 + data_length + its
\* computed padding) equals that entry's packed length, so unpacking the
\* packed bytes returns the same k contexts in order
C21_Case ==
    /\ kind = "SMB2NegotiateResponse"
    /\ msg.dialect_revision = SMB_3_1_1
    /\ Len(msg.negotiate_context_list) >= 1

\* C21 (formula): the decoder's advance is the packed length of every entry,
\* and the decoded list is the packed list
C21_ResponseContextsRoundTrip ==
    /\ (pc \in {"packed", "decoded"} /\ C21_Case) =>
           \A i \in 1..Len(msg.negotiate_context_list) :
               LET entry == SMB2NegotiateContextRequest_pack(
                                msg.negotiate_context_list[i])
                   data_length == FromLE(Get(entry, "data_length"))
               IN  8 + data_length
                       + SMB2NegotiateResponse_padded_size(data_length)
                       = Len(Wire(entry))
    /\ (pc = "decoded" /\ C21_Case) =>
           /\ decoded.ok
           /\ LET sent == msg.negotiate_context_list
                  got == decoded.value.negotiate_context_list
              IN  /\ Len(got) = Len(sent)
                  /\ \A i \in 1..Len(sent) :
                         /\ got[i].context_type = sent[i].context_type
                         /\ got[i].data_length = Len(PackData(sent[i].data))
                         /\ got[i].data = sent[i].data

\* C22: every constant default buffer offset in the catalog equals 64 (the
\* packed length of the fixed SMB2 header fields before data) plus the summed
\* byte sizes of the body fields declared before the buffer it points at:
\* security_buffer_offset 128 in SMB2NegotiateResponse, 88 in
\* SMB2SessionSetupRequest, 72 in SMB2SessionSetupResponse, path_offset 72 in
\* SMB2TreeConnectRequest and name_offset 120 in SMB2CreateRequest
C22_PointsAt(offset, value, buffer) ==
    /\ FieldInt(offset) = value
    /\ FieldInt(offset) = 64 + PositionOf(packed.fields, buffer)
    /\ Drop(Wire(packed.fields), value - 64)
           = Wire(SubSeq(packed.fields, IndexOf(packed.fields, buffer, 1),
                         Len(packed.fields)))

\* C22 (formula): the header before data is 64 bytes long and each constant
\* offset is 64 + the measured position of its buffer in the packed body
C22_ConstantOffsets ==
    (pc = "packed" /\ packed.ok) =>
        /\ kind = "SMB2PacketHeader" =>
               /\ PositionOf(packed.fields, "data") = 64
               /\ header_size = 64
        /\ kind = "SMB2NegotiateResponse" =>
               C22_PointsAt("security_buffer_offset", 128, "buffer")
        /\ kind = "SMB2SessionSetupRequest" =>
               C22_PointsAt("security_buffer_offset", 88, "buffer")
        /\ kind = "SMB2SessionSetupResponse" =>
               C22_PointsAt("security_buffer_offset", 72, "buffer")
        /\ kind = "SMB2TreeConnectRequest" =>
               C22_PointsAt("path_offset", 72, "buffer")
        /\ kind = "SMB2CreateRequest" =>
               C22_PointsAt("name_offset", 120, "buffer_path")

C22_Witness ==
    /\ pc = "packed"
    /\ kind = "SMB2SessionSetupResponse"
    /\ packed.ok
    /\ Len(msg.buffer) = 3
    /\ FieldInt("security_buffer_offset") = 72
    /\ PositionOf(packed.fields, "buffer") = 8

====
